---- MODULE Spec2Model ----
(***************************************************************************)
(* The voting / qualification / exposure engine of the CarMod Showdown     *)
(* backend (src/unnamed/part_001).  The relational store is the shared     *)
(* state; every pool.query of a handler is one atomic step, and handlers   *)
(* of different requests interleave between their queries and at every     *)
(* other await (the upload to the object storage, the e-mails), so that    *)
(* the answer of an upload or of a select-winner is a step of its own.     *)
(***************************************************************************)
EXTENDS Integers, Sequences, FiniteSets, TLC

VARIABLES
    submissions,   \* table submissions: a sequence of rows, id = position (serial key)
    user_votes,    \* table user_votes: rows [voter_id, submission_id, vote_value]
    req,           \* the request each worker is handling, with the handler's locals
    nreq,          \* number of requests received so far
    resp,          \* the response the last step sent, with the request's locals
    served         \* history: per submission, in how many answered batches it was

vars == <<submissions, user_votes, req, nreq, resp, served>>

----------------------------------------------------------------------------
(* Program constants *)

\* LIMIT 25 of both batch queries and the threshold voteCount >= 25
QUOTA == 25

\* 1000 * 60 * 60 * 24 ms; time is counted in hours here, so a day is 24
HoursPerDay == 24

\* Math.floor(diffDays / 7)
DaysPerWeek == 7

\* if (weekNumber > 10) return 11
LastWeek == 10

\* LIMIT 10 of the winners query
TopWinners == 10

\* Math.ceil(totalVoters * 0.20): one vote for every five voters
VotersPerVote == 5

----------------------------------------------------------------------------
(* Bounds of the model *)

\* requests received in one behaviour
MaxRequests == 2

\* requests received in one behaviour of the one-at-a-time specification
MaxSeqRequests == 3

\* requests received in one behaviour of the specification with large pools
MaxWideRequests == 2

\* the weeks winners are asked for
Weeks == {1, 2}

\* requests received in one behaviour of the specification with ranked entries
MaxRankRequests == 2

\* requests received in one behaviour of the specification with many times
MaxWeekRequests == 1

\* days before the start date and from the end of the last week on at which
\* uploads arrive in that specification
DaysAround == 2

\* the two workers whose requests overlap
Workers == {"w1", "w2"}

\* users: u1 and u2 vote, own owns the seeded entries, adm has users.is_admin
Voters == {"u1", "u2"}
Users == Voters \cup {"own", "adm"}

\* voteValue of the request body, as <<typeof voteValue, the integer that the
\* column vote_value stores for it>>: the numbers 1 (thumbs up), -1 (thumbs
\* down) and 0 (neither), and the string "1", which a form-encoded body or a
\* quoted JSON value carries and which the column stores as 1
VoteValues ==
    {<<"number", 1>>, <<"number", -1>>, <<"number", 0>>, <<"string", 1>>}

\* hours since the start date at which uploads arrive: before the start,
\* at the start, after the last week
UploadTimes == {-1, 0, (LastWeek * DaysPerWeek) * HoursPerDay}

\* hours since the start date of the first and the last hour of every day
\* from DaysAround days before the start to DaysAround days after the end
WeekTimes ==
    {d * HoursPerDay + h :
        d \in (0 - DaysAround)..(LastWeek * DaysPerWeek + DaysAround - 1),
        h \in {0, HoursPerDay - 1}}

----------------------------------------------------------------------------
(* Helpers over the tables *)

Ids == 1..Len(submissions)

Min(a, b) == IF a < b THEN a ELSE b

Max(a, b) == IF a > b THEN a ELSE b

\* SELECT COUNT(*) FROM user_votes WHERE voter_id = v
CountVotes(v) == Cardinality({r \in user_votes : r.voter_id = v})

\* the unique key (voter_id, submission_id) of user_votes
HasVote(v, s) == \E r \in user_votes : r.voter_id = v /\ r.submission_id = s

\* OwnedBy that takes the rows of no owner for the voter's
OwnedByDefault(v) ==
    IF \E i \in Ids : submissions[i].user_id = v
        THEN {i \in Ids : submissions[i].user_id = v}
        ELSE {i \in Ids : submissions[i].user_id = "own"}

\* SELECT * FROM submissions WHERE user_id = v
OwnedBy(v) == {i \in Ids : submissions[i].user_id = v}

\* IsAdmin that holds of every user
IsAdminAnyone(u) == TRUE

\* users.is_admin
IsAdmin(u) == u = "adm"

\* getCurrentWeek that counts the weeks from 0
getCurrentWeekFromZero(diffTime) ==
    LET diffDays == diffTime \div HoursPerDay
        weekNumber == diffDays \div DaysPerWeek
    IN  IF weekNumber < 1 THEN 0
        ELSE IF weekNumber > LastWeek THEN LastWeek + 1
        ELSE weekNumber

\* getCurrentWeek with now - startDate = diffTime (in hours)
getCurrentWeek(diffTime) ==
    LET diffDays == diffTime \div HoursPerDay
        weekNumber == (diffDays \div DaysPerWeek) + 1
    IN  IF weekNumber < 1 THEN 0
        ELSE IF weekNumber > LastWeek THEN LastWeek + 1
        ELSE weekNumber

\* NewSubmission that is QUALIFIED from the start
NewSubmissionQualified(u, week) ==
    [user_id |-> u, week_number |-> week, status |-> "QUALIFIED",
     times_shown |-> 0, thumbs_up |-> 0, thumbs_down |-> 0, total_votes |-> 0,
     votes_completed |-> 0, qualified_at |-> 0, is_winner |-> FALSE]

\* a row as INSERT INTO submissions creates it (the other columns take the
\* defaults of the table: zero counters, no qualified_at, not a winner)
NewSubmission(u, week) ==
    [user_id |-> u, week_number |-> week, status |-> "PENDING",
     times_shown |-> 0, thumbs_up |-> 0, thumbs_down |-> 0, total_votes |-> 0,
     votes_completed |-> 0, qualified_at |-> 0, is_winner |-> FALSE]

\* the locals of a worker that handles nothing
Idle ==
    [kind |-> "none", pc |-> "idle", user |-> "-", voterId |-> "-",
     submissionId |-> 0, voteType |-> "-", voteValue |-> 0,
     inserted |-> FALSE,
     voterSubmission |-> 0, voterStatus |-> "-", voteCount |-> 0,
     qualified |-> FALSE, pool |-> {}, entries |-> {}, fallback |-> FALSE,
     valid |-> FALSE, diffTime |-> 0, weekNumber |-> 0, totalVoters |-> 0,
     minimumVotes |-> 0,
     winners |-> <<>>, code |-> 0]

Free(w) == req[w].pc = "idle"

\* res.json / res.status(code).json of the handler whose locals are r
Answer(r, code) == [r EXCEPT !.pc = "done", !.code = code]

----------------------------------------------------------------------------
(* The stores a behaviour starts from: states the handlers below produce.   *)
(* own uploaded NFill entries in week 1, then u1 uploaded one entry, then   *)
(* u1 and u2 each voted up, one call at a time, on the entries 1..Voted.    *)
(* u1 is one vote short of the quota; u2 has cast as many votes but has no  *)
(* entry yet.  In Init no batch was fetched.  In InitShown u1 fetched a     *)
(* batch after each of its votes: the batch after the vote on entry k held  *)
(* the entries k+1..NFill, so that entry i was shown i - 1 times.           *)

NFill == QUOTA
Voted == QUOTA - 1

SeedSubmissions(shown) ==
    [i \in 1..(NFill + 1) |->
        IF i <= Voted
            THEN [NewSubmission("own", 1) EXCEPT !.thumbs_up = 2, !.total_votes = 2,
                                                 !.times_shown = shown[i]]
        ELSE IF i <= NFill
            THEN [NewSubmission("own", 1) EXCEPT !.times_shown = shown[i]]
        ELSE [NewSubmission("u1", 1) EXCEPT !.votes_completed = Voted]]

SeedVotes ==
    {[voter_id |-> v, submission_id |-> i, vote_value |-> 1] :
        v \in Voters, i \in 1..Voted}

InitWith(shown) ==
    /\ submissions = SeedSubmissions(shown)
    /\ user_votes = SeedVotes
    /\ req = [w \in Workers |-> Idle]
    /\ nreq = 0
    /\ resp = Idle
    /\ served = shown

Init == InitWith([i \in 1..(NFill + 1) |-> 0])

InitShown == InitWith([i \in 1..(NFill + 1) |-> IF i <= NFill THEN i - 1 ELSE 0])

\* the submission ids requests name: an entry the voters already voted on, the
\* entry nobody voted on, u1's entry, and every entry uploaded later (vote
\* requests for ids that no submission has are not among the inputs)
Targets == {1} \cup (NFill..Len(submissions))

----------------------------------------------------------------------------
(* A later store, for the ranking of the winners.  From the store of Init,  *)
(* u1 uploaded more entries in the weeks 1 and 2 and then cast its 25th     *)
(* vote, on the entry NFill, which made all its entries QUALIFIED.  Then    *)
(* the users of RankVoters voted on the entries of u1.  RankTable gives,    *)
(* for each entry of u1 in the order of upload, <<thumbs_up, total_votes,   *)
(* week_number>> after these votes: the first total_votes users of          *)
(* RankVoters voted on it, the first thumbs_up of them up.  Last, the first *)
(* n users of ExtraVoters each cast one vote, on the entry Boosted of u1,   *)
(* the first ExtraUp of them up.                                            *)

RankTable ==
    << <<1, 2, 1>>, <<4, 4, 1>>, <<1, 4, 1>>, <<2, 3, 1>>, <<1, 1, 1>>,
       <<3, 3, 1>>, <<0, 0, 1>>, <<2, 4, 1>>, <<1, 4, 1>>, <<3, 3, 2>>,
       <<0, 4, 1>>, <<2, 2, 1>>, <<0, 2, 1>>, <<3, 4, 1>>, <<1, 1, 2>>,
       <<1, 3, 1>>, <<0, 3, 1>>, <<0, 1, 1>>, <<3, 4, 1>>, <<0, 4, 1>> >>

RankVoters == <<"u2", "u3", "u4", "u5">>

ExtraVoters == <<"x1", "x2", "x3", "x4", "x5", "x6">>

ExtraUp == 3

Boosted == NFill + 14

\* how many users of ExtraVoters have voted: with u1 and RankVoters that makes
\* 5, 6, 10 or 11 voters
ExtraCounts == {0, 1, 5, 6}

RankedSubmissions(n) ==
    [i \in 1..(NFill + Len(RankTable)) |->
        IF i <= Voted
            THEN [NewSubmission("own", 1) EXCEPT !.thumbs_up = 2, !.total_votes = 2]
        ELSE IF i = NFill
            THEN [NewSubmission("own", 1) EXCEPT !.thumbs_up = 1, !.total_votes = 1]
        ELSE LET up == RankTable[i - NFill][1] + (IF i = Boosted THEN Min(n, ExtraUp) ELSE 0)
                 total == RankTable[i - NFill][2] + (IF i = Boosted THEN n ELSE 0)
             IN  [NewSubmission("u1", RankTable[i - NFill][3]) EXCEPT
                     !.thumbs_up = up, !.thumbs_down = total - up,
                     !.total_votes = total,
                     !.status = "QUALIFIED", !.votes_completed = QUOTA,
                     !.qualified_at = 1]]

RankedVotes(n) ==
    SeedVotes
    \cup {[voter_id |-> "u1", submission_id |-> NFill, vote_value |-> 1]}
    \cup {[voter_id |-> RankVoters[k], submission_id |-> NFill + e,
           vote_value |-> IF k <= RankTable[e][1] THEN 1 ELSE -1] :
              <<e, k>> \in {x \in (DOMAIN RankTable) \X (DOMAIN RankVoters) :
                               x[2] <= RankTable[x[1]][2]}}
    \cup {[voter_id |-> ExtraVoters[k], submission_id |-> Boosted,
           vote_value |-> IF k <= ExtraUp THEN 1 ELSE -1] : k \in 1..n}

InitRanked ==
    \E n \in ExtraCounts :
        /\ submissions = RankedSubmissions(n)
        /\ user_votes = RankedVotes(n)
        /\ req = [w \in Workers |-> Idle]
        /\ nreq = 0
        /\ resp = Idle
        /\ served = [i \in 1..(NFill + Len(RankTable)) |-> 0]

\* the entries of u1 that the requests of the ranked store name: one without
\* votes, one of the two with one up vote of four, and one with a single vote
RankTargets == {NFill + 7, NFill + 9, NFill + 5}

----------------------------------------------------------------------------
(* POST /api/vote *)

\* InsertVote without ON CONFLICT ... DO NOTHING
InsertVoteAlways(votes, v, s, val) ==
    votes \cup {[voter_id |-> v, submission_id |-> s, vote_value |-> val]}

\* INSERT INTO user_votes ... ON CONFLICT (voter_id, submission_id) DO NOTHING
InsertVote(votes, v, s, val) ==
    IF \E r \in votes : r.voter_id = v /\ r.submission_id = s
        THEN votes
        ELSE votes \cup {[voter_id |-> v, submission_id |-> s, vote_value |-> val]}

\* the request of the authenticated user a arrives with the body
\* {voterId, submissionId, voteValue} and its first query runs
CastInsert(w) ==
    \E a \in Voters, v \in Voters, s \in Targets, val \in VoteValues :
        /\ user_votes' = InsertVote(user_votes, v, s, val[2])
        /\ req' = [req EXCEPT ![w] =
                     [Idle EXCEPT !.kind = "vote", !.pc = "cv_tally",
                                  !.user = a, !.voterId = v, !.submissionId = s,
                                  !.voteType = val[1], !.voteValue = val[2],
                                  !.inserted = ~HasVote(v, s)]]
        /\ nreq' = nreq + 1
        /\ resp' = Idle
        /\ UNCHANGED <<submissions, served>>

\* Tally that counts the vote in total_votes alone
TallyTotalOnly(subs, s, type, val) ==
    [i \in DOMAIN subs |->
        IF i # s THEN subs[i] ELSE [subs[i] EXCEPT !.total_votes = @ + 1]]

\* Tally with a down vote that forgets total_votes
TallyDownOnly(subs, s, type, val) ==
    [i \in DOMAIN subs |->
        IF i # s THEN subs[i]
        ELSE IF type = "number" /\ val = 1
            THEN [subs[i] EXCEPT !.thumbs_up = @ + 1, !.total_votes = @ + 1]
            ELSE [subs[i] EXCEPT !.thumbs_down = @ + 1]]

\* UPDATE submissions SET thumbs_up|thumbs_down + 1, total_votes + 1 WHERE id = s;
\* voteValue === 1 holds for the number 1 alone
Tally(subs, s, type, val) ==
    [i \in DOMAIN subs |->
        IF i # s THEN subs[i]
        ELSE IF type = "number" /\ val = 1
            THEN [subs[i] EXCEPT !.thumbs_up = @ + 1, !.total_votes = @ + 1]
            ELSE [subs[i] EXCEPT !.thumbs_down = @ + 1, !.total_votes = @ + 1]]

CastTally(w) ==
    /\ req[w].pc = "cv_tally"
    /\ submissions' = Tally(submissions, req[w].submissionId,
                             req[w].voteType, req[w].voteValue)
    /\ req' = [req EXCEPT ![w].pc = "cv_own"]
    /\ resp' = Idle
    /\ UNCHANGED <<user_votes, nreq, served>>

\* SELECT * FROM submissions WHERE user_id = voterId; rows[0] is any of them
CastSelectOwn(w) ==
    /\ req[w].pc = "cv_own"
    /\ IF OwnedBy(req[w].voterId) = {}
          THEN /\ req' = [req EXCEPT ![w] = Idle]
               /\ resp' = Answer(req[w], 200)
          ELSE /\ \E i \in OwnedBy(req[w].voterId) :
                    req' = [req EXCEPT ![w].pc = "cv_count",
                                       ![w].voterSubmission = i,
                                       ![w].voterStatus = submissions[i].status]
               /\ resp' = Idle
    /\ UNCHANGED <<submissions, user_votes, nreq, served>>

\* SELECT COUNT(*) FROM user_votes WHERE voter_id = voterId
CastCount(w) ==
    /\ req[w].pc = "cv_count"
    /\ req' = [req EXCEPT ![w].pc = "cv_completed",
                          ![w].voteCount = CountVotes(req[w].voterId)]
    /\ resp' = Idle
    /\ UNCHANGED <<submissions, user_votes, nreq, served>>

\* SetCompleted that also sets the status back, for the next statement to
\* decide it anew
SetCompletedResetting(subs, v, n) ==
    [i \in DOMAIN subs |->
        IF subs[i].user_id = v
            THEN [subs[i] EXCEPT !.votes_completed = n, !.status = "PENDING"]
        ELSE subs[i]]

\* UPDATE submissions SET votes_completed = n WHERE user_id = v
SetCompleted(subs, v, n) ==
    [i \in DOMAIN subs |->
        IF subs[i].user_id = v THEN [subs[i] EXCEPT !.votes_completed = n]
        ELSE subs[i]]

\* MustQualify without the test of the status
MustQualifyAnyStatus(voteCount, status) == voteCount >= QUOTA

\* if (voteCount >= 25 && voterSubmission.status === 'PENDING')
MustQualify(voteCount, status) == voteCount >= QUOTA /\ status = "PENDING"

CastSetCompleted(w) ==
    /\ req[w].pc = "cv_completed"
    /\ submissions' = SetCompleted(submissions, req[w].voterId, req[w].voteCount)
    /\ IF MustQualify(req[w].voteCount, req[w].voterStatus)
          THEN /\ req' = [req EXCEPT ![w].pc = "cv_qualify"]
               /\ resp' = Idle
          ELSE /\ req' = [req EXCEPT ![w] = Idle]
               /\ resp' = Answer(req[w], 200)
    /\ UNCHANGED <<user_votes, nreq, served>>

\* UPDATE submissions SET status = 'QUALIFIED', qualified_at = NOW() WHERE user_id = v
\* qualified_at: 0 is NULL, otherwise the number of times NOW() was written to it
Qualify(subs, v) ==
    [i \in DOMAIN subs |->
        IF subs[i].user_id = v
            THEN [subs[i] EXCEPT !.status = "QUALIFIED", !.qualified_at = @ + 1]
        ELSE subs[i]]

CastQualify(w) ==
    /\ req[w].pc = "cv_qualify"
    /\ submissions' = Qualify(submissions, req[w].voterId)
    /\ req' = [req EXCEPT ![w] = Idle]
    /\ resp' = Answer([req[w] EXCEPT !.qualified = TRUE], 200)
    /\ UNCHANGED <<user_votes, nreq, served>>

----------------------------------------------------------------------------
(* GET /api/voting/batch/:userId *)

\* Eligible without the NOT IN subquery
EligibleVotedToo(u) == {i \in Ids : submissions[i].user_id # u}

\* WHERE user_id != u AND id NOT IN (SELECT submission_id FROM user_votes
\* WHERE voter_id = u)
Eligible(u) ==
    {i \in Ids : submissions[i].user_id # u /\ ~HasVote(u, i)}

\* the first query: ... AND status = 'QUALIFIED'
QualifiedPool(u) == {i \in Eligible(u) : submissions[i].status = "QUALIFIED"}

\* the rows of a query result, each with the times_shown it was read with
Rows(pool) == {[id |-> i, times_shown |-> submissions[i].times_shown] : i \in pool}

\* NeedsFallback with the result compared to the size of a batch
NeedsFallbackBelowQuota(rows) == Cardinality(rows) < QUOTA

\* if (entries.length === 0): the second query is due
NeedsFallback(rows) == rows = {}

\* the request for the batch of a user u of U (params.userId) arrives and the
\* first query runs
BatchSelect(w, U) ==
    \E u \in U :
        /\ req' = [req EXCEPT ![w] =
                     [Idle EXCEPT !.kind = "batch", !.voterId = u,
                                  !.pool = Rows(QualifiedPool(u)),
                                  !.pc = IF NeedsFallback(Rows(QualifiedPool(u)))
                                            THEN "vb_fallback" ELSE "vb_mark"]]
        /\ nreq' = nreq + 1
        /\ resp' = Idle
        /\ UNCHANGED <<submissions, user_votes, served>>

\* an answered batch is counted for each of its entries
Serve(s, entries) == [i \in DOMAIN s |-> IF i \in entries THEN s[i] + 1 ELSE s[i]]

\* BatchFallback whose query keeps the status filter
BatchFallbackQualifiedOnly(w) ==
    /\ req[w].pc = "vb_fallback"
    /\ req' = [req EXCEPT ![w] = Idle]
    /\ resp' = Answer([req[w] EXCEPT !.fallback = TRUE], 200)
    /\ UNCHANGED <<submissions, user_votes, nreq, served>>

\* the second query, without the status filter; an empty result is answered
BatchFallback(w) ==
    /\ req[w].pc = "vb_fallback"
    /\ IF Eligible(req[w].voterId) = {}
          THEN /\ req' = [req EXCEPT ![w] = Idle]
               /\ resp' = Answer([req[w] EXCEPT !.fallback = TRUE], 200)
          ELSE /\ req' = [req EXCEPT ![w].fallback = TRUE,
                                     ![w].pool = Rows(Eligible(req[w].voterId)),
                                     ![w].pc = "vb_mark"]
               /\ resp' = Idle
    /\ UNCHANGED <<submissions, user_votes, nreq, served>>

\* the rows of the query result not yet taken by the loop
Remaining(r) == {c \in r.pool : c.id \notin r.entries}

\* NextRows with ORDER BY id DESC
NextRowsNewestFirst(rows) == {c \in rows : \A d \in rows : c.id >= d.id}

\* NextRows with ORDER BY times_shown DESC
NextRowsMostShown(rows) ==
    {c \in rows : \A d \in rows : c.times_shown >= d.times_shown}

\* ORDER BY times_shown ASC, RANDOM(): the next row of the result is any of the
\* rows not yet taken that has the least times_shown
NextRows(rows) == {c \in rows : \A d \in rows : c.times_shown <= d.times_shown}

\* MarkShown that writes back the times_shown the row was read with, plus one
MarkShownFromRead(subs, entry) ==
    [i \in DOMAIN subs |->
        IF i = entry.id THEN [subs[i] EXCEPT !.times_shown = entry.times_shown + 1]
        ELSE subs[i]]

\* MarkShown that counts the showing as a vote as well
MarkShownAsVote(subs, entry) ==
    [i \in DOMAIN subs |->
        IF i = entry.id
            THEN [subs[i] EXCEPT !.times_shown = @ + 1, !.total_votes = @ + 1]
        ELSE subs[i]]

\* UPDATE submissions SET times_shown = times_shown + 1 WHERE id = entry.id
MarkShown(subs, entry) ==
    [i \in DOMAIN subs |->
        IF i = entry.id THEN [subs[i] EXCEPT !.times_shown = @ + 1] ELSE subs[i]]

\* one turn of "for (const entry of entries)"; LIMIT 25 ends the result, and
\* after the last entry the batch is answered
BatchMark(w) ==
    /\ req[w].pc = "vb_mark"
    /\ \E c \in NextRows(Remaining(req[w])) :
          LET entries == req[w].entries \cup {c.id}
              last == Cardinality(entries) = QUOTA \/ Remaining(req[w]) = {c}
          IN  /\ submissions' = MarkShown(submissions, c)
              /\ req' = IF last THEN [req EXCEPT ![w] = Idle]
                         ELSE [req EXCEPT ![w].entries = entries]
              /\ resp' = IF last
                            THEN Answer([req[w] EXCEPT !.entries = entries], 200)
                            ELSE Idle
              /\ served' = IF last THEN Serve(served, entries) ELSE served
    /\ UNCHANGED <<user_votes, nreq>>

----------------------------------------------------------------------------
(* POST /api/upload-part *)

\* the request arrives: validation and week gate.  valid: a file and
\* partName, partType, carModel were sent; diffTime: now - startDate, one of
\* the times T.  A request that is not valid is refused before the week is
\* computed; one refused by the gate is answered at once; an accepted one
\* awaits the upload to the object storage, which is taken to succeed.
UploadAt(w, T) ==
    \E u \in Voters, diffTime \in T, valid \in BOOLEAN :
        LET weekNumber == getCurrentWeek(diffTime)
            accepted == valid /\ weekNumber # 0 /\ weekNumber # LastWeek + 1
            r == [Idle EXCEPT !.kind = "upload", !.user = u, !.valid = valid,
                              !.diffTime = diffTime,
                              !.weekNumber = IF valid THEN weekNumber ELSE 0]
        IN  /\ IF accepted
                  THEN /\ req' = [req EXCEPT ![w] = [r EXCEPT !.pc = "up_insert"]]
                       /\ resp' = Idle
                  ELSE /\ req' = req
                       /\ resp' = Answer(r, 400)
            /\ nreq' = nreq + 1
            /\ UNCHANGED <<submissions, user_votes, served>>

\* INSERT INTO submissions ... RETURNING *, with the week the gate computed;
\* the handler then awaits the confirmation e-mail
UploadInsert(w) ==
    /\ req[w].pc = "up_insert"
    /\ submissions' = Append(submissions,
                             NewSubmission(req[w].user, req[w].weekNumber))
    /\ served' = Append(served, 0)
    /\ req' = [req EXCEPT ![w].pc = "up_answer",
                          ![w].submissionId = Len(submissions) + 1]
    /\ resp' = Idle
    /\ UNCHANGED <<user_votes, nreq>>

\* res.json with the row the INSERT returned, whether or not the e-mail was
\* sent
UploadAnswer(w) ==
    /\ req[w].pc = "up_answer"
    /\ req' = [req EXCEPT ![w] = Idle]
    /\ resp' = Answer(req[w], 200)
    /\ UNCHANGED <<submissions, user_votes, nreq, served>>

Upload(w) == UploadAt(w, UploadTimes)

----------------------------------------------------------------------------
(* POST /api/admin/select-winner/:id *)

\* UPDATE submissions SET is_winner = true, status = 'winner' WHERE id = s
Promote(subs, s) ==
    [i \in DOMAIN subs |->
        IF i = s THEN [subs[i] EXCEPT !.is_winner = TRUE, !.status = "winner"]
        ELSE subs[i]]

\* the request of the authenticated user a for submission s arrives and
\* SELECT is_admin FROM users WHERE id = a runs
SelectWinner(w) ==
    \E a \in {"adm", "u1"}, s \in (Targets \ {1}) \cup {Len(submissions) + 1} :
        LET r == [Idle EXCEPT !.kind = "winner", !.user = a, !.submissionId = s]
        IN  /\ IF IsAdmin(a)
                  THEN /\ req' = [req EXCEPT ![w] = [r EXCEPT !.pc = "sw_update"]]
                       /\ resp' = Idle
                  ELSE /\ req' = req
                       /\ resp' = Answer(r, 403)
            /\ nreq' = nreq + 1
            /\ UNCHANGED <<submissions, user_votes, served>>

\* the UPDATE ... RETURNING *; without a row the answer is 404, with one the
\* handler awaits the e-mail to the winner
SelectWinnerUpdate(w) ==
    /\ req[w].pc = "sw_update"
    /\ submissions' = Promote(submissions, req[w].submissionId)
    /\ IF req[w].submissionId \in Ids
          THEN /\ req' = [req EXCEPT ![w].pc = "sw_answer"]
               /\ resp' = Idle
          ELSE /\ req' = [req EXCEPT ![w] = Idle]
               /\ resp' = Answer(req[w], 404)
    /\ UNCHANGED <<user_votes, nreq, served>>

\* res.json with the row the UPDATE returned, whether or not the e-mail was
\* sent
SelectWinnerAnswer(w) ==
    /\ req[w].pc = "sw_answer"
    /\ req' = [req EXCEPT ![w] = Idle]
    /\ resp' = Answer(req[w], 200)
    /\ UNCHANGED <<submissions, user_votes, nreq, served>>

----------------------------------------------------------------------------
(* GET /api/submission/status/:userId *)

\* ORDER BY created_at DESC LIMIT 1: the row inserted last, which has the
\* greatest id
Latest(rows) == CHOOSE i \in rows : \A j \in rows : j <= i

\* the request for the status of a user arrives and the first query runs; a
\* user without a submission is answered at once
StatusSelect(w) ==
    \E u \in Voters :
        /\ IF OwnedBy(u) = {}
              THEN /\ req' = req
                   /\ resp' = Answer([Idle EXCEPT !.kind = "status",
                                                   !.voterId = u], 200)
              ELSE /\ req' = [req EXCEPT ![w] =
                                [Idle EXCEPT !.kind = "status", !.pc = "gs_count",
                                             !.voterId = u,
                                             !.voterSubmission = Latest(OwnedBy(u)),
                                             !.voterStatus =
                                                 submissions[Latest(OwnedBy(u))].status]]
                   /\ resp' = Idle
        /\ nreq' = nreq + 1
        /\ UNCHANGED <<submissions, user_votes, served>>

\* SELECT COUNT(*) FROM user_votes WHERE voter_id = userId, and the answer
StatusCount(w) ==
    /\ req[w].pc = "gs_count"
    /\ resp' = Answer([req[w] EXCEPT !.voteCount = CountVotes(req[w].voterId)], 200)
    /\ req' = [req EXCEPT ![w] = Idle]
    /\ UNCHANGED <<submissions, user_votes, nreq, served>>

----------------------------------------------------------------------------
(* GET /api/winners/:weekNumber *)

\* SELECT COUNT(DISTINCT voter_id) FROM user_votes
totalVoters(votes) == Cardinality({r.voter_id : r \in votes})

\* minimumVotes without the rounding up
minimumVotesRoundedDown(n) == Max(n \div VotersPerVote, 1)

\* Math.max(Math.ceil(totalVoters * 0.20), 1); the product of a count and the
\* double 0.20 rounds to the whole number when the count is a multiple of 5
\* and stays strictly between two whole numbers otherwise, so that the ceiling
\* is the ceiling of n / 5
minimumVotes(n) == Max((n + (VotersPerVote - 1)) \div VotersPerVote, 1)

\* WinnerRows without the test of total_votes
WinnerRowsAnyVotes(week, least) ==
    {i \in Ids : /\ submissions[i].week_number = week
                 /\ submissions[i].status = "QUALIFIED"}

\* WHERE week_number = $1 AND status = 'QUALIFIED' AND total_votes >= $2
WinnerRows(week, least) ==
    {i \in Ids : /\ submissions[i].week_number = week
                 /\ submissions[i].status = "QUALIFIED"
                 /\ submissions[i].total_votes >= least}

\* approval_rating as the fraction <<numerator, denominator>>: thumbs_up /
\* total_votes (the factor 100 is left out), 0 when there is no vote.  The
\* double of a quotient depends on the value of the fraction only, and two
\* different fractions with denominators this small give different doubles,
\* so that comparing the fractions compares the ratings.
approval_rating(row) ==
    IF row.total_votes > 0 THEN <<row.thumbs_up, row.total_votes>> ELSE <<0, 1>>

\* Before with the least approved rows first
BeforeAscending(a, b) ==
    LET ra == approval_rating(a)
        rb == approval_rating(b)
    IN  \/ ra[1] * rb[2] < rb[1] * ra[2]
        \/ ra[1] * rb[2] = rb[1] * ra[2] /\ a.total_votes > b.total_votes

\* ORDER BY approval_rating DESC, total_votes DESC: row a sorts before row b
Before(a, b) ==
    LET ra == approval_rating(a)
        rb == approval_rating(b)
    IN  \/ ra[1] * rb[2] > rb[1] * ra[2]
        \/ ra[1] * rb[2] = rb[1] * ra[2] /\ a.total_votes > b.total_votes

\* the orders the sort may give the rows of S: rows that tie on both keys
\* come in any order
RECURSIVE Sorted(_)
Sorted(S) ==
    IF S = {} THEN {<<>>}
    ELSE UNION {{<<i>> \o t : t \in Sorted(S \ {i})} :
                    i \in {j \in S : \A k \in S :
                              ~Before(submissions[k], submissions[j])}}

\* LIMIT n
Limit(rows, n) == SubSeq(rows, 1, Min(n, Len(rows)))

\* the columns of a returned row that the ranking rests on
WinnerRow(i) ==
    [id |-> i, week_number |-> submissions[i].week_number,
     status |-> submissions[i].status, thumbs_up |-> submissions[i].thumbs_up,
     total_votes |-> submissions[i].total_votes]

\* the request for the winners of a week arrives and the voters are counted
WinnersCount(w) ==
    \E week \in Weeks :
        /\ req' = [req EXCEPT ![w] =
                     [Idle EXCEPT !.kind = "winners", !.pc = "gw_select",
                                  !.weekNumber = week,
                                  !.totalVoters = totalVoters(user_votes),
                                  !.minimumVotes =
                                      minimumVotes(totalVoters(user_votes))]]
        /\ nreq' = nreq + 1
        /\ resp' = Idle
        /\ UNCHANGED <<submissions, user_votes, served>>

\* WinnersSelect that counts the query as a showing of the entries of the week
WinnersSelectMarking(w) ==
    /\ req[w].pc = "gw_select"
    /\ resp' = Answer(req[w], 200)
    /\ submissions' =
          [i \in Ids |->
              IF submissions[i].week_number = req[w].weekNumber
                  THEN [submissions[i] EXCEPT !.times_shown = @ + 1]
                  ELSE submissions[i]]
    /\ req' = [req EXCEPT ![w] = Idle]
    /\ UNCHANGED <<user_votes, nreq, served>>

\* the winners query runs and the handler answers
WinnersSelect(w) ==
    /\ req[w].pc = "gw_select"
    /\ \E order \in Sorted(WinnerRows(req[w].weekNumber, req[w].minimumVotes)) :
          resp' = Answer([req[w] EXCEPT !.winners =
                             [k \in DOMAIN Limit(order, TopWinners) |->
                                 WinnerRow(order[k])]], 200)
    /\ req' = [req EXCEPT ![w] = Idle]
    /\ UNCHANGED <<submissions, user_votes, nreq, served>>

----------------------------------------------------------------------------
(* Specifications *)

\* the first worker that handles no request takes the next one; which of two
\* free workers takes it makes no difference to the store
Admit(w, max) ==
    /\ nreq < max
    /\ Free(w)
    /\ w = "w1" \/ ~Free("w1")

\* the vote requests of the overlapping specification: voters are who they
\* say (the handler never reads the authenticated user)
OwnName(w) == req'[w].user = req'[w].voterId

\* requests of the two workers overlap
Next ==
    \E w \in Workers :
        \/ Admit(w, MaxRequests) /\ CastInsert(w) /\ OwnName(w)
        \/ Admit(w, MaxRequests) /\ BatchSelect(w, Voters)
        \/ Admit(w, MaxRequests) /\ Upload(w)
        \/ Admit(w, MaxRequests) /\ SelectWinner(w)
        \/ Admit(w, MaxRequests) /\ WinnersCount(w)
        \/ Admit(w, MaxRequests) /\ StatusSelect(w)
        \/ CastTally(w)
        \/ CastSelectOwn(w)
        \/ CastCount(w)
        \/ CastSetCompleted(w)
        \/ CastQualify(w)
        \/ BatchFallback(w)
        \/ BatchMark(w)
        \/ WinnersSelect(w)
        \/ StatusCount(w)
        \/ UploadInsert(w)
        \/ UploadAnswer(w)
        \/ SelectWinnerUpdate(w)
        \/ SelectWinnerAnswer(w)

Spec == Init /\ [][Next]_vars

\* one request at a time: a request is received when no other is in flight
Alone == \A x \in Workers : Free(x)

NextSeq ==
    \E w \in Workers :
        \/ Alone /\ Admit(w, MaxSeqRequests) /\ CastInsert(w)
        \/ Alone /\ Admit(w, MaxSeqRequests) /\ BatchSelect(w, Voters)
        \/ Alone /\ Admit(w, MaxSeqRequests) /\ Upload(w)
        \/ Alone /\ Admit(w, MaxSeqRequests) /\ SelectWinner(w)
        \/ Alone /\ Admit(w, MaxSeqRequests) /\ WinnersCount(w)
        \/ Alone /\ Admit(w, MaxSeqRequests) /\ StatusSelect(w)
        \/ CastTally(w)
        \/ CastSelectOwn(w)
        \/ CastCount(w)
        \/ CastSetCompleted(w)
        \/ CastQualify(w)
        \/ BatchFallback(w)
        \/ BatchMark(w)
        \/ WinnersSelect(w)
        \/ StatusCount(w)
        \/ UploadInsert(w)
        \/ UploadAnswer(w)
        \/ SelectWinnerUpdate(w)
        \/ SelectWinnerAnswer(w)

SpecSeq == Init /\ [][NextSeq]_vars

\* one request at a time, from the store in which the entries were shown
\* unequally often, and with batches also for adm, who has voted on nothing:
\* its pool holds more than QUOTA entries
NextWide ==
    \E w \in Workers :
        \/ Alone /\ Admit(w, MaxWideRequests) /\ CastInsert(w)
        \/ Alone /\ Admit(w, MaxWideRequests) /\ BatchSelect(w, Voters \cup {"adm"})
        \/ Alone /\ Admit(w, MaxWideRequests) /\ Upload(w)
        \/ Alone /\ Admit(w, MaxWideRequests) /\ SelectWinner(w)
        \/ Alone /\ Admit(w, MaxWideRequests) /\ WinnersCount(w)
        \/ Alone /\ Admit(w, MaxWideRequests) /\ StatusSelect(w)
        \/ CastTally(w)
        \/ CastSelectOwn(w)
        \/ CastCount(w)
        \/ CastSetCompleted(w)
        \/ CastQualify(w)
        \/ BatchFallback(w)
        \/ BatchMark(w)
        \/ WinnersSelect(w)
        \/ StatusCount(w)
        \/ UploadInsert(w)
        \/ UploadAnswer(w)
        \/ SelectWinnerUpdate(w)
        \/ SelectWinnerAnswer(w)

SpecWide == InitShown /\ [][NextWide]_vars

\* the requests of the ranked store: votes and promotions name the entries of
\* RankTargets (or an id that no entry has), voters are who they say and send
\* the number 1 or -1
RankInputs(w) ==
    /\ req'[w].kind = "vote" =>
          /\ req'[w].submissionId \in RankTargets
          /\ req'[w].user = req'[w].voterId
          /\ req'[w].voteType = "number" /\ req'[w].voteValue \in {1, -1}
    /\ req'[w].kind = "winner" =>
          req'[w].submissionId \in RankTargets \cup {Len(submissions) + 1}
    /\ resp'.kind = "winner" =>
          resp'.submissionId \in RankTargets \cup {Len(submissions) + 1}

\* one request at a time, from the ranked store
NextRank ==
    \E w \in Workers :
        \/ Alone /\ Admit(w, MaxRankRequests) /\ CastInsert(w) /\ RankInputs(w)
        \/ Alone /\ Admit(w, MaxRankRequests) /\ BatchSelect(w, Voters)
        \/ Alone /\ Admit(w, MaxRankRequests) /\ Upload(w)
        \/ Alone /\ Admit(w, MaxRankRequests) /\ SelectWinner(w) /\ RankInputs(w)
        \/ Alone /\ Admit(w, MaxRankRequests) /\ WinnersCount(w)
        \/ Alone /\ Admit(w, MaxRankRequests) /\ StatusSelect(w)
        \/ CastTally(w)
        \/ CastSelectOwn(w)
        \/ CastCount(w)
        \/ CastSetCompleted(w)
        \/ CastQualify(w)
        \/ BatchFallback(w)
        \/ BatchMark(w)
        \/ WinnersSelect(w)
        \/ StatusCount(w)
        \/ UploadInsert(w)
        \/ UploadAnswer(w)
        \/ SelectWinnerUpdate(w)
        \/ SelectWinnerAnswer(w)

SpecRank == InitRanked /\ [][NextRank]_vars

\* one request at a time, with uploads at the times of WeekTimes
NextWeek ==
    \E w \in Workers :
        \/ Alone /\ Admit(w, MaxWeekRequests) /\ CastInsert(w)
        \/ Alone /\ Admit(w, MaxWeekRequests) /\ BatchSelect(w, Voters)
        \/ Alone /\ Admit(w, MaxWeekRequests) /\ UploadAt(w, WeekTimes)
        \/ Alone /\ Admit(w, MaxWeekRequests) /\ SelectWinner(w)
        \/ Alone /\ Admit(w, MaxWeekRequests) /\ WinnersCount(w)
        \/ Alone /\ Admit(w, MaxWeekRequests) /\ StatusSelect(w)
        \/ CastTally(w)
        \/ CastSelectOwn(w)
        \/ CastCount(w)
        \/ CastSetCompleted(w)
        \/ CastQualify(w)
        \/ BatchFallback(w)
        \/ BatchMark(w)
        \/ WinnersSelect(w)
        \/ StatusCount(w)
        \/ UploadInsert(w)
        \/ UploadAnswer(w)
        \/ SelectWinnerUpdate(w)
        \/ SelectWinnerAnswer(w)

SpecWeek == Init /\ [][NextWeek]_vars

----------------------------------------------------------------------------
(* Claims *)

\* the received-vote counters of a row
Tallies(row) == <<row.thumbs_up, row.thumbs_down, row.total_votes>>

\* the worker w runs the UPDATE of the counters in this step
TallyStep(w) == req[w].pc = "cv_tally" /\ req'[w].pc = "cv_own"

\* C1: a cast for a (voter, submission) pair that already has a Vote row
\* leaves thumbs_up, thumbs_down and total_votes of every submission as they
\* were (and is answered with success).
C1_DuplicateCastKeepsTallies ==
    [][\A w \in Workers :
          (TallyStep(w) /\ ~req[w].inserted) =>
              \A i \in Ids : Tallies(submissions'[i]) = Tallies(submissions[i])]_vars

\* C2: a cast by the owner of the target submission is refused and creates no
\* Vote row: no Vote row has the owner of its submission as voter, and a vote
\* request naming the voter's own submission is not answered with success.
C2_SelfVoteRejected ==
    /\ \A r \in user_votes : submissions[r.submission_id].user_id # r.voter_id
    /\ (resp.kind = "vote"
           /\ submissions[resp.submissionId].user_id = resp.voterId)
         => resp.code # 200

\* C3: for every submission total_votes = thumbs_up + thumbs_down, in every
\* state of every interleaving of vote, batch, upload and select-winner
\* requests.
C3_TotalIsUpPlusDown ==
    \A i \in Ids :
        submissions[i].total_votes
            = submissions[i].thumbs_up + submissions[i].thumbs_down

\* the entry without votes at the start has received an up and a down vote
C3_Witness ==
    /\ submissions[NFill].thumbs_up = 1
    /\ submissions[NFill].thumbs_down = 1
    /\ \A w \in Workers : Free(w)

\* the Vote rows of the voter the response resp went to
RespCount == CountVotes(resp.voterId)

\* C4 as claimed: with one request at a time, a vote request is answered
\* qualified = true only when it recorded the voter's 25th Vote row.
C4_QualifiedOnlyOn25thVote ==
    (resp.kind = "vote" /\ resp.qualified) =>
        (resp.inserted /\ RespCount = QUOTA)

\* C4 as amended: with one request at a time, a vote request of a voter who
\* owns a submission is answered qualified = true exactly when it finds at
\* least 25 Vote rows of the voter and read the voter's submission as
\* PENDING, and then every submission of the voter is QUALIFIED and stamped;
\* a voter without a submission is answered false; and a submission whose
\* owner has no other submission is stamped at most once.
C4_QualifiedExactlyAtQuotaWhilePending ==
    /\ resp.kind = "vote" =>
          /\ resp.qualified <=>
                /\ resp.voterSubmission # 0
                /\ RespCount >= QUOTA
                /\ resp.voterStatus = "PENDING"
          /\ resp.qualified =>
                \A i \in OwnedBy(resp.voterId) :
                    /\ submissions[i].status = "QUALIFIED"
                    /\ submissions[i].qualified_at >= 1
    /\ \A i \in Ids :
          OwnedBy(submissions[i].user_id) = {i} => submissions[i].qualified_at <= 1

\* u1, whose entry was uploaded before its 25th vote, is answered
\* qualified = true by the request that recorded its 25th Vote row
C4_Witness ==
    /\ resp.kind = "vote" /\ resp.voterId = "u1" /\ resp.qualified
    /\ resp.inserted /\ RespCount = QUOTA
    /\ submissions[NFill + 1].status = "QUALIFIED"
    /\ submissions[NFill + 1].votes_completed = QUOTA

\* C5: the transition to QUALIFIED fires at most once for a submission, also
\* when two vote requests of its owner overlap: the qualified_at of a
\* submission whose owner has no other submission is written at most once.
C5_QualifiedAtStampedOnce ==
    \A i \in Ids :
        OwnedBy(submissions[i].user_id) = {i} => submissions[i].qualified_at <= 1

\* C6: a submission that is a winner (status winner, is_winner true) keeps
\* that status and that flag in every later step.
C6_WinnerIsTerminal ==
    [][\A i \in Ids :
          (submissions[i].status = "winner" /\ submissions[i].is_winner) =>
              (submissions'[i].status = "winner" /\ submissions'[i].is_winner)]_vars

\* the worker w runs one of the two queries of a batch request in this step
QueryStep(w) ==
    /\ req'[w].kind = "batch"
    /\ req'[w].pool # {}
    /\ req[w].pool # req'[w].pool

\* C7: the rows either query of a batch request returns are submissions the
\* requesting user does not own and has not voted on, and no answered batch
\* holds a submission of the requesting user.
C7_BatchExcludesOwnAndVoted ==
    [][/\ \A w \in Workers :
             QueryStep(w) =>
                 \A c \in req'[w].pool :
                     /\ submissions[c.id].user_id # req'[w].voterId
                     /\ ~HasVote(req'[w].voterId, c.id)
       /\ resp'.kind = "batch" =>
             /\ resp'.entries \subseteq {c.id : c \in resp'.pool}
             /\ \A e \in resp'.entries : submissions'[e].user_id # resp'.voterId]_vars

\* a batch taken from the QUALIFIED entries alone was answered to u2, who has
\* voted on entries that the batch does not hold
C7_Witness ==
    /\ resp.kind = "batch" /\ ~resp.fallback /\ resp.entries # {}
    /\ resp.voterId = "u2"
    /\ \E r \in user_votes : r.voter_id = "u2" /\ r.submission_id \notin resp.entries

\* C8 as claimed: with one request at a time, a batch request that finds fewer
\* than 25 eligible QUALIFIED submissions is answered from the whole eligible
\* pool, PENDING submissions included.
C8_FallbackBelowQuota ==
    (resp.kind = "batch" /\ Cardinality(QualifiedPool(resp.voterId)) < QUOTA) =>
        /\ resp.fallback
        /\ Cardinality(Eligible(resp.voterId)) <= QUOTA =>
              resp.entries = Eligible(resp.voterId)

\* C8 as amended: with one request at a time, a batch request is answered
\* from the whole eligible pool exactly when no eligible QUALIFIED submission
\* remains; when at least one remains the batch holds QUALIFIED submissions
\* only, all of them if they are at most 25.
C8_FallbackOnlyWhenNoneQualified ==
    resp.kind = "batch" =>
        /\ resp.fallback <=> QualifiedPool(resp.voterId) = {}
        /\ {c.id : c \in resp.pool} =
              IF resp.fallback THEN Eligible(resp.voterId)
                               ELSE QualifiedPool(resp.voterId)
        /\ resp.entries \subseteq {c.id : c \in resp.pool}
        /\ Cardinality(resp.entries) = Min(QUOTA, Cardinality(resp.pool))

\* a batch of QUALIFIED entries was answered although an eligible PENDING
\* entry remains, which the batch does not hold
C8_Witness ==
    /\ resp.kind = "batch" /\ ~resp.fallback
    /\ Cardinality(resp.entries) < QUOTA
    /\ \E i \in Eligible(resp.voterId) :
          submissions[i].status = "PENDING" /\ i \notin resp.entries

\* the batch requests in flight that have marked submission i as shown
Marking(i) == {w \in Workers : req[w].kind = "batch" /\ i \in req[w].entries}

\* C9: the times_shown of every submission is the number of answered
\* batches that held it, plus the batch requests in flight that have
\* marked it: no increment is lost or added when batch requests overlap.
C9_TimesShownCountsBatches ==
    \A i \in Ids :
        submissions[i].times_shown = served[i] + Cardinality(Marking(i))

\* an entry was marked by a batch that has been answered and by an
\* overlapping batch request that is still marking
C9_Witness ==
    \E i \in Ids :
        /\ served[i] = 1
        /\ submissions[i].times_shown = 2
        /\ \E w \in Workers : req[w].pc = "vb_mark" /\ i \in req[w].entries

\* the greatest difference of times_shown between two members of a set
Spread(shown) ==
    IF shown = {} THEN 0
    ELSE (CHOOSE a \in shown : \A b \in shown : a >= b)
         - (CHOOSE a \in shown : \A b \in shown : a <= b)

\* C10 as claimed: after a batch request, with one request at a time, the
\* times_shown of two submissions eligible for the same voter differ by at
\* most 1.
C10_ExposureWithinOne ==
    resp.kind = "batch" =>
        \A u \in Voters :
            Spread({submissions[i].times_shown : i \in Eligible(u)}) <= 1

\* C10 as amended: a batch request that runs alone does not widen the
\* exposure gap of the pool it selected from: after it the greatest and the
\* least times_shown of that pool differ by at most 1, or by no more than
\* they did when the pool was read.
C10_BatchDoesNotWidenSpread ==
    resp.kind = "batch" =>
        LET before == {c.times_shown : c \in resp.pool}
            after == {submissions[c.id].times_shown : c \in resp.pool}
        IN  \/ Spread(after) <= 1
            \/ Spread(after) <= Spread(before)

\* a batch of 25 was answered from a larger pool whose entries had been
\* shown unequally often
C10_Witness ==
    /\ resp.kind = "batch"
    /\ Cardinality(resp.entries) = QUOTA
    /\ Cardinality(resp.pool) > QUOTA
    /\ Spread({c.times_shown : c \in resp.pool}) > 1

\* the row of the store that a returned row shows
Shown(row) == WinnerRow(row.id) = row

\* C11: the rows a winners request returns are submissions of the requested
\* week whose status is QUALIFIED and whose total_votes is at least the
\* minimumVotes of the same response.
C11_WinnersOfWeekQualifiedAboveMinimum ==
    resp.kind = "winners" =>
        \A k \in DOMAIN resp.winners :
            /\ Shown(resp.winners[k])
            /\ resp.winners[k].week_number = resp.weekNumber
            /\ resp.winners[k].status = "QUALIFIED"
            /\ resp.winners[k].total_votes >= resp.minimumVotes

\* winners were returned while the store holds a QUALIFIED entry of the week
\* with too few votes, a PENDING entry of the week with enough votes and a
\* QUALIFIED entry of another week with enough votes
C11_Witness ==
    /\ resp.kind = "winners" /\ resp.winners # <<>>
    /\ \E i \in Ids : /\ submissions[i].week_number = resp.weekNumber
                       /\ submissions[i].status = "QUALIFIED"
                       /\ submissions[i].total_votes >= 1
                       /\ submissions[i].total_votes < resp.minimumVotes
    /\ \E i \in Ids : /\ submissions[i].week_number = resp.weekNumber
                       /\ submissions[i].status = "PENDING"
                       /\ submissions[i].total_votes >= resp.minimumVotes
    /\ \E i \in Ids : /\ submissions[i].week_number # resp.weekNumber
                       /\ submissions[i].status = "QUALIFIED"
                       /\ submissions[i].total_votes >= resp.minimumVotes

\* C12: the minimumVotes of a winners response is max(ceil(0.20 * V), 1), the
\* least whole number m >= 1 with m >= 20 V / 100, where V is the number of
\* distinct voter_id of all Vote rows, of whatever week.
C12_MinimumVotesIsFifthOfVoters ==
    resp.kind = "winners" =>
        LET V == Cardinality({r.voter_id : r \in user_votes})
            m == resp.minimumVotes
        IN  /\ resp.totalVoters = V
            /\ m >= 1
            /\ 100 * m >= 20 * V
            /\ m > 1 => 100 * (m - 1) < 20 * V

\* with 10 distinct voters, some of whom voted on entries of week 1 only,
\* the winners of week 2 were returned with minimumVotes 2
C12_Witness ==
    /\ resp.kind = "winners" /\ resp.weekNumber = 2
    /\ Cardinality({r.voter_id : r \in user_votes}) = 10
    /\ \E r \in user_votes : \A q \in user_votes :
          q.voter_id = r.voter_id => submissions[q.submission_id].week_number = 1
    /\ resp.minimumVotes = 2

\* row a has a greater approval thumbs_up / total_votes than row b, or the
\* same approval and more votes (both rows have votes)
Outranks(a, b) ==
    \/ a.thumbs_up * b.total_votes > b.thumbs_up * a.total_votes
    \/ /\ a.thumbs_up * b.total_votes = b.thumbs_up * a.total_votes
       /\ a.total_votes > b.total_votes

\* C13: a winners response holds at most 10 rows (all eligible rows when
\* they are at most 10), no row outranks a row returned before it, and no
\* eligible submission left out outranks a returned row.
C13_TopTenByApprovalThenVotes ==
    resp.kind = "winners" =>
        LET eligible == WinnerRows(resp.weekNumber, resp.minimumVotes)
            returned == {resp.winners[k].id : k \in DOMAIN resp.winners}
        IN  /\ Len(resp.winners) = Min(10, Cardinality(eligible))
            /\ Cardinality(returned) = Len(resp.winners)
            /\ \A j, k \in DOMAIN resp.winners :
                  j < k => ~Outranks(resp.winners[k], resp.winners[j])
            /\ \A i \in eligible \ returned : \A k \in DOMAIN resp.winners :
                  ~Outranks(submissions[i], resp.winners[k])

\* ten winners were returned, an entry with 3 up votes of 3 before one with
\* 6 up votes of 10, and an eligible entry that ties with the last returned
\* row was left out
C13_Witness ==
    /\ resp.kind = "winners" /\ Len(resp.winners) = 10
    /\ \E j, k \in DOMAIN resp.winners :
          /\ j < k
          /\ resp.winners[j].thumbs_up = 3 /\ resp.winners[j].total_votes = 3
          /\ resp.winners[k].thumbs_up = 6 /\ resp.winners[k].total_votes = 10
    /\ \E i \in WinnerRows(resp.weekNumber, resp.minimumVotes) :
          /\ \A k \in DOMAIN resp.winners : resp.winners[k].id # i
          /\ ~Outranks(resp.winners[10], submissions[i])

\* C14: the week an upload computes depends on the time alone: with d the
\* whole days since the start date (24 d <= t < 24 (d + 1) for the time t in
\* hours), it is 0 when d < 0, floor(d / 7) + 1 when 0 <= d <= 69 and 11 when
\* d >= 70; it is in 0..11, and no earlier time gives a later week.
C14_WeekOfTime ==
    (resp.kind = "upload" /\ resp.valid) =>
        /\ \E d \in -100..100 :
              /\ 24 * d <= resp.diffTime /\ resp.diffTime < 24 * (d + 1)
              /\ resp.weekNumber = IF d < 0 THEN 0
                                    ELSE IF d <= 69 THEN (d \div 7) + 1
                                    ELSE 11
        /\ resp.weekNumber \in 0..11
        /\ \A t \in WeekTimes :
              /\ t <= resp.diffTime => getCurrentWeek(t) <= resp.weekNumber
              /\ t = resp.diffTime => getCurrentWeek(t) = resp.weekNumber

\* an upload at the last hour of day 69 computed week 10
C14_Witness ==
    /\ resp.kind = "upload" /\ resp.valid
    /\ resp.diffTime = 70 * 24 - 1
    /\ resp.weekNumber = 10

\* C15: an upload whose week, computed when it arrives, is 0 or 11 is
\* refused and leaves the submissions as they are; the INSERT of an upload
\* accepted in the weeks 1..10 appends exactly one submission, with status
\* PENDING, all counters zero, not a winner and the week of the upload; no
\* other step adds or removes a submission, an upload is answered with
\* success only for the row it stored; every stored submission has a
\* week_number in 1..10.
C15_UploadGatedByWeek ==
    /\ [](\A i \in Ids : submissions[i].week_number \in 1..10)
    /\ [][/\ (resp'.kind = "upload" /\ resp'.valid
                  /\ resp'.weekNumber \in {0, 11}) =>
                (resp'.code # 200 /\ submissions' = submissions)
          /\ \A w \in Workers :
                (req[w].pc = "up_insert" /\ req'[w] # req[w]) =>
                    /\ req[w].weekNumber \in 1..10
                    /\ Len(submissions') = Len(submissions) + 1
                    /\ SubSeq(submissions', 1, Len(submissions)) = submissions
                    /\ submissions'[Len(submissions')] =
                          [user_id |-> req[w].user,
                           week_number |-> req[w].weekNumber,
                           status |-> "PENDING", times_shown |-> 0,
                           thumbs_up |-> 0, thumbs_down |-> 0,
                           total_votes |-> 0, votes_completed |-> 0,
                           qualified_at |-> 0, is_winner |-> FALSE]
          /\ Len(submissions') # Len(submissions) =>
                \E w \in Workers : req[w].pc = "up_insert" /\ req'[w] # req[w]
          /\ (resp'.kind = "upload" /\ resp'.code = 200) =>
                /\ resp'.weekNumber \in 1..10
                /\ submissions' = submissions
                /\ resp'.submissionId \in Ids
                /\ submissions[resp'.submissionId].user_id = resp'.user
                /\ submissions[resp'.submissionId].week_number
                      = resp'.weekNumber]_vars

\* an upload in week 10 was accepted and stored
C15_Witness ==
    /\ resp.kind = "upload" /\ resp.code = 200 /\ resp.weekNumber = 10
    /\ resp.submissionId = Len(submissions)
    /\ submissions[Len(submissions)].week_number = 10
    /\ submissions[Len(submissions)].status = "PENDING"

\* C16: user_votes holds at most one row for a pair of voter and submission
\* (as many rows as pairs) after every step, also while two vote requests for
\* the same pair overlap, and no step removes a row or changes its vote_value.
C16_OneVotePerPairForGood ==
    [][/\ Cardinality({<<r.voter_id, r.submission_id>> : r \in user_votes'})
             = Cardinality(user_votes')
       /\ user_votes \subseteq user_votes']_vars

\* two vote requests for the same pair, with different values, are in flight
\* and both have run their INSERT: the first created the row, the second
\* did not
C16_Witness ==
    /\ ~Free("w1") /\ ~Free("w2")
    /\ req["w1"].kind = "vote" /\ req["w2"].kind = "vote"
    /\ req["w1"].voterId = req["w2"].voterId
    /\ req["w1"].submissionId = req["w2"].submissionId
    /\ req["w1"].voteValue # req["w2"].voteValue
    /\ req["w1"].inserted /\ ~req["w2"].inserted
    /\ [voter_id |-> req["w1"].voterId, submission_id |-> req["w1"].submissionId,
        vote_value |-> req["w1"].voteValue] \in user_votes

\* C17: no step lowers the votes_completed of a submission, also when two
\* vote requests of its owner overlap, and no step of a vote request of
\* another user changes it.
C17_VotesCompletedNeverDecreases ==
    [][\A i \in Ids :
          /\ submissions'[i].votes_completed >= submissions[i].votes_completed
          /\ \A w \in Workers :
                (/\ req[w].kind = "vote"
                 /\ req'[w] # req[w]
                 /\ req[w].voterId # submissions[i].user_id)
                    => submissions'[i].votes_completed
                           = submissions[i].votes_completed]_vars

\* C18: whenever no request is in flight, a QUALIFIED submission has
\* votes_completed >= 25 and an owner with at least 25 Vote rows, and a
\* PENDING submission has votes_completed < 25.
C18_StatusFollowsCount ==
    Alone =>
        \A i \in Ids :
            /\ submissions[i].status = "QUALIFIED" =>
                  /\ submissions[i].votes_completed >= QUOTA
                  /\ CountVotes(submissions[i].user_id) >= QUOTA
            /\ submissions[i].status = "PENDING" =>
                  submissions[i].votes_completed < QUOTA

\* C19: no step gives the status PENDING to a submission that has another
\* status: a submission that has become QUALIFIED is never PENDING again.
C19_QualifiedNeverPendingAgain ==
    [][\A i \in Ids :
          submissions[i].status # "PENDING" => submissions'[i].status # "PENDING"]_vars

\* a vote request of u1, whose entry it read as QUALIFIED, has counted the
\* votes and written votes_completed again, and the entry is QUALIFIED still
C19_Witness ==
    /\ resp.kind = "vote" /\ resp.voterId = "u1"
    /\ resp.voterStatus = "QUALIFIED" /\ resp.voteCount >= QUOTA
    /\ submissions[resp.voterSubmission].votes_completed = resp.voteCount
    /\ submissions[resp.voterSubmission].status = "QUALIFIED"

\* the Vote rows created since the start
\* what the UPDATE of a first-time vote with the number val adds to the
\* counters <<thumbs_up, thumbs_down, total_votes>>
Grown(t, val) ==
    <<t[1] + (IF val = 1 THEN 1 ELSE 0), t[2] + (IF val = -1 THEN 1 ELSE 0),
      t[3] + 1>>

\* C20: the UPDATE of every first-time vote whose value is the number 1 (up)
\* or -1 (down) adds one to total_votes of its submission and one to
\* thumbs_up or thumbs_down according to the value, on top of what the
\* counters hold at that moment, and no other step changes the counters of
\* a submission, however the requests overlap: when k such votes have run
\* their UPDATE the counters have grown by k and by the up and down votes
\* among them.
C20_NoLostTally ==
    [][/\ \A w \in Workers :
             (/\ TallyStep(w)
              /\ req[w].inserted
              /\ req[w].voteType = "number" /\ req[w].voteValue \in {1, -1}) =>
                 Tallies(submissions'[req[w].submissionId])
                    = Grown(Tallies(submissions[req[w].submissionId]),
                            req[w].voteValue)
       /\ \A i \in Ids :
             Tallies(submissions'[i]) # Tallies(submissions[i]) =>
                 \E w \in Workers : TallyStep(w) /\ req[w].submissionId = i]_vars

\* the first-time votes of two voters on the same submission, one up and one
\* down, overlapped, both have run their UPDATE, and the submission has two
\* votes more
C20_Witness ==
    /\ req["w1"].kind = "vote" /\ req["w2"].kind = "vote"
    /\ req["w1"].pc # "cv_tally" /\ req["w2"].pc # "cv_tally"
    /\ req["w1"].voterId # req["w2"].voterId
    /\ req["w1"].submissionId = NFill /\ req["w2"].submissionId = NFill
    /\ req["w1"].inserted /\ req["w2"].inserted
    /\ req["w1"].voteType = "number" /\ req["w2"].voteType = "number"
    /\ req["w1"].voteValue = 1 /\ req["w2"].voteValue = -1
    /\ Tallies(submissions[NFill]) = <<1, 1, 2>>

\* the worker w takes a step of a request of the given kind
StepOf(w, kind) ==
    \/ req[w].kind = kind /\ req'[w] # req[w]
    \/ req'[w].kind = kind /\ req'[w] # req[w]

\* C21: no step of a winners request changes a submission or a Vote row,
\* and a submission becomes a winner (status winner or is_winner true) only
\* in the UPDATE of a select-winner request of an admin that names it.
C21_WinnersReadsOnly ==
    [][/\ (resp'.kind = "winners" \/ \E w \in Workers : StepOf(w, "winners")) =>
             (submissions' = submissions /\ user_votes' = user_votes)
       /\ \A i \in Ids :
             (\/ submissions'[i].status = "winner" /\ submissions[i].status # "winner"
              \/ submissions'[i].is_winner /\ ~submissions[i].is_winner) =>
                 \E w \in Workers :
                     /\ req[w].kind = "winner" /\ req[w].pc = "sw_update"
                     /\ req'[w].pc = "sw_answer"
                     /\ req[w].submissionId = i
                     /\ req[w].user = "adm"]_vars

\* a winners request was answered while the store holds a winner
C21_Witness ==
    /\ resp.kind = "winners" /\ resp.code = 200
    /\ \E i \in Ids : submissions[i].is_winner /\ submissions[i].status = "winner"

\* status and is_winner of the rows
Crowned(subs) == [i \in DOMAIN subs |-> <<subs[i].status, subs[i].is_winner>>]

\* C22: a select-winner request of a user who is not an admin is refused
\* when it arrives and never runs the UPDATE; the UPDATE of an admin's
\* request for an id that no submission has changes nothing and is answered
\* with a refusal; neither changes status or is_winner of a submission.
\* The UPDATE of an admin's request for an existing submission gives that
\* submission the status winner and is_winner true and changes nothing
\* else, and the success answered afterwards changes nothing.
C22_SelectWinnerOnlyByAdmin ==
    [][/\ (resp'.kind = "winner" /\ resp'.user # "adm") =>
             (resp'.code # 200 /\ submissions' = submissions)
       /\ (resp'.kind = "winner" /\ resp'.code # 200) =>
             Crowned(submissions') = Crowned(submissions)
       /\ \A w \in Workers :
             (req[w].kind = "winner" /\ req'[w] # req[w]) =>
                 /\ req[w].user = "adm"
                 /\ IF req[w].pc # "sw_update"
                       THEN submissions' = submissions /\ resp'.code = 200
                    ELSE IF req[w].submissionId \notin Ids
                       THEN submissions' = submissions /\ resp'.code # 200
                    ELSE /\ resp'.code # 200
                         /\ req'[w].pc = "sw_answer"
                         /\ submissions' =
                               [submissions EXCEPT
                                   ![req[w].submissionId] =
                                       [@ EXCEPT !.status = "winner",
                                                 !.is_winner = TRUE]]]_vars

\* after an earlier request, the admin has made a submission the winner
\* while other submissions are no winners
C22_Witness ==
    /\ resp.kind = "winner" /\ resp.user = "adm" /\ resp.code = 200
    /\ submissions[resp.submissionId].status = "winner"
    /\ submissions[resp.submissionId].is_winner
    /\ \E i \in Ids : ~submissions[i].is_winner
    /\ nreq > 1

\* C23: the counters thumbs_up, thumbs_down and total_votes of a submission
\* change only in the step of a vote request on that submission that runs
\* the UPDATE of the counters: no step of a batch, status, winners,
\* select-winner or upload request changes them, and a vote on one
\* submission leaves those of the others alone.
C23_OnlyVotesChangeTallies ==
    [][\A i \in Ids :
          Tallies(submissions'[i]) # Tallies(submissions[i]) =>
              \E w \in Workers : TallyStep(w) /\ req[w].submissionId = i]_vars

\* a batch that holds an entry with a vote was answered, and the entry has
\* that one vote still
C23_Witness ==
    /\ resp.kind = "batch" /\ NFill \in resp.entries
    /\ submissions[NFill].total_votes = 1
    /\ Cardinality({r \in user_votes : r.submission_id = NFill}) = 1

\* C24: when a vote request of a voter with a submission is answered and no
\* other vote request of that voter is in flight, the votesCompleted of the
\* response and the votes_completed of the submission the handler read are
\* the number of Vote rows of the voter.
C24_CompletedIsRowCount ==
    (/\ resp.kind = "vote" /\ resp.voterSubmission # 0
     /\ ~\E w \in Workers : req[w].kind = "vote" /\ req[w].voterId = resp.voterId)
        => /\ resp.voteCount = RespCount
           /\ submissions[resp.voterSubmission].votes_completed = RespCount

\* C25: an answered batch holds at most 25 submissions, all of the pool the
\* request selected from, and no row of that pool left out was read with a
\* smaller times_shown than a row of the batch.
C25_LeastShownFirst ==
    resp.kind = "batch" =>
        /\ Cardinality(resp.entries) <= QUOTA
        /\ resp.entries \subseteq {c.id : c \in resp.pool}
        /\ \A c, d \in resp.pool :
              (c.id \in resp.entries /\ d.id \notin resp.entries)
                  => c.times_shown <= d.times_shown

\* a batch of 25 was answered and a row of the pool that was shown more
\* often than each of them was left out
C25_Witness ==
    /\ resp.kind = "batch" /\ Cardinality(resp.entries) = QUOTA
    /\ \E d \in resp.pool :
          /\ d.id \notin resp.entries
          /\ \A c \in resp.pool : c.id \in resp.entries =>
                c.times_shown < d.times_shown

\* the submissions user u does not own and has no Vote row for, read off the
\* tables
Open(u) ==
    {i \in Ids : /\ submissions[i].user_id # u
                 /\ \A r \in user_votes :
                       ~(r.voter_id = u /\ r.submission_id = i)}

\* C26: with one request at a time, a batch request is answered with
\* success; the batch is empty exactly when there is no submission that the
\* user does not own and has not voted on, of whatever status; and a request
\* answered with an empty batch has changed no submission.
C26_EmptyBatchOnlyWhenNothingOpen ==
    [][/\ resp'.kind = "batch" =>
             /\ resp'.code = 200
             /\ resp'.entries = {} <=> Open(resp'.voterId) = {}
       /\ \A w \in Workers :
             (/\ req[w].kind = "batch" /\ req'[w] # req[w]
              /\ Open(req[w].voterId) = {})
                 => submissions' = submissions]_vars

\* an empty batch was answered, with success, to u1, who has voted on every
\* submission of the others
C26_Witness ==
    /\ resp.kind = "batch" /\ resp.voterId = "u1" /\ resp.code = 200
    /\ resp.entries = {} /\ resp.fallback
    /\ \A i \in Ids : submissions[i].user_id = "u1" \/ HasVote("u1", i)

\* status, votes_completed and qualified_at of the rows
Progress(subs) ==
    [i \in DOMAIN subs |->
        <<subs[i].status, subs[i].votes_completed, subs[i].qualified_at>>]

\* C27: no step of a vote request whose voter owns no submission changes
\* status, votes_completed or qualified_at of a submission, and the response
\* to a voter who owns no submission has qualified = false.
C27_NoSubmissionNothingToQualify ==
    [][/\ \A w \in Workers :
             (/\ req[w].kind = "vote" /\ req'[w] # req[w]
              /\ \A i \in Ids : submissions[i].user_id # req[w].voterId)
                 => Progress(submissions') = Progress(submissions)
       /\ (/\ resp'.kind = "vote"
           /\ \A i \in Ids : submissions[i].user_id # resp'.voterId)
              => ~resp'.qualified]_vars

\* u2, who owns no submission, was answered qualified = false by the
\* request that recorded its 25th Vote row
C27_Witness ==
    /\ resp.kind = "vote" /\ resp.voterId = "u2" /\ resp.inserted
    /\ RespCount = QUOTA
    /\ ~resp.qualified
    /\ \A i \in Ids : submissions[i].user_id # "u2"

\* C28: the status of every submission is PENDING, QUALIFIED or the winner
\* status (stored as winner), and is_winner is true exactly when the status
\* is the winner status.
C28_StatusAndWinnerFlagAgree ==
    \A i \in Ids :
        /\ submissions[i].status \in {"PENDING", "QUALIFIED", "winner"}
        /\ submissions[i].is_winner <=> submissions[i].status = "winner"

\* C29: every Vote row has the value 1 (up) or -1 (down), and a vote request
\* with another value, or none, is not answered with success.
C29_VoteValueUpOrDown ==
    /\ \A r \in user_votes : r.vote_value \in {1, -1}
    /\ (resp.kind = "vote" /\ resp.voteValue \notin {1, -1}) => resp.code # 200

\* the Vote rows on submission i
VotesOn(i) == {r \in user_votes : r.submission_id = i}

\* C30: whenever no request is in flight, total_votes of every submission is
\* the number of Vote rows on it, thumbs_up the number of those with value
\* up and thumbs_down the number of the others.
C30_TalliesAreRowCounts ==
    Alone =>
        \A i \in Ids :
            /\ submissions[i].total_votes = Cardinality(VotesOn(i))
            /\ submissions[i].thumbs_up
                  = Cardinality({r \in VotesOn(i) : r.vote_value = 1})
            /\ submissions[i].thumbs_down
                  = Cardinality({r \in VotesOn(i) : r.vote_value # 1})

\* C31: a Vote row is created only with the authenticated user of the vote
\* request that creates it as voter, and no step of a vote request changes
\* status, votes_completed or qualified_at of a submission of another user
\* than the authenticated one.
C31_VotesOnlyInOwnName ==
    [][\A w \in Workers :
          /\ (Free(w) /\ req'[w].kind = "vote")
                => \A r \in user_votes' \ user_votes :
                       r.voter_id = req'[w].user
          /\ (req[w].kind = "vote" /\ req'[w] # req[w])
                => \A i \in Ids :
                       submissions[i].user_id # req[w].user
                           => Progress(submissions')[i]
                                 = Progress(submissions)[i]]_vars

====
